---- MODULE Spec2Model ----
(***************************************************************************)
(* Model of tomo_scripts/subvol_extract_project2D.py: subvolume extraction *)
(* from tomograms and projection to 2D.                                    *)
(*                                                                         *)
(* Conventions.  A Python str is a sequence of one-character strings and   *)
(* string concatenation is \o.  A coordinate read with float() is kept in  *)
(* half voxels (the integer 2*c), so that int() has something to truncate. *)
(* A volume is known by its shape <<nz, ny, nx>>; a subvolume by the       *)
(* volume, the first index of its window on each axis and its shape.       *)
(***************************************************************************)
EXTENDS Integers, Sequences, FiniteSets, TLC

VARIABLES
    args,               \* the parsed command line
    fs,                 \* input files read so far: tomogram name -> its files
    df,                 \* run_star_mode: the input table as read
    pc,                 \* position of the run
    err,                \* the exception that ended the run, or "none"
    filenames, ti,      \* run_extraction_mode: tomogram list and loop index
    volume, coords, ci, \* the tomogram being extracted and its coordinate loop
    pnum, written_files,                                \* extract_and_write
    all_written_files, all_coords, all_tomonames,       \* run_extraction_mode
    all_subvolumes, all_coords_2d, all_tomonames_2d,    \* run_extraction_mode
    wp,                 \* write_projected_images: parameters, loop index, data
    disk,               \* array files under the output directory: path -> data
    star3d, star2d,     \* the two metadata tables: written or not, and the rows
    call                \* one call of a function on its own (harnesses)

runVars == << args, fs, df, pc, err, filenames, ti, volume, coords, ci, pnum,
              written_files, all_written_files, all_coords, all_tomonames,
              all_subvolumes, all_coords_2d, all_tomonames_2d, wp, disk,
              star3d, star2d >>
vars == << runVars, call >>

----------------------------------------------------------------------------
(* Bounds of the model *)

MaxBox == 4        \* box sizes 1..MaxBox in the window harness
MaxDim == 5        \* volume extents MaxDim-1..MaxDim per axis in the window harness
MaxDepth == 4      \* subvolume depths 1..MaxDepth in the projection harness
MaxN == 5          \* slice counts -1..MaxN in the projection harness

----------------------------------------------------------------------------
(* Python and numpy primitives used by the script *)

Min(a, b) == IF a <= b THEN a ELSE b
Max(a, b) == IF a >= b THEN a ELSE b

\* int(c) for a float c held as the integer c2 = 2*c: truncation toward zero.
IntTrunc(c2) == IF c2 >= 0 THEN c2 \div 2 ELSE -((-c2) \div 2)

\* Length of a[lo:hi] on an axis of extent dim: a negative index counts
\* from the end, then both indices are clipped to [0, dim].
SliceStart(lo, dim) == IF lo < 0 THEN Max(lo + dim, 0) ELSE Min(lo, dim)
SliceLen(lo, hi, dim) == Max(0, SliceStart(hi, dim) - SliceStart(lo, dim))

\* An ndarray is [shape |-> <<...>>, data |-> nested sequences]; arr.ndim.
ndim(arr) == Len(arr.shape)

----------------------------------------------------------------------------
(* extract_and_write: the window of one coordinate line *)

\* nx1, ny1, nz1 and nx2, ny2, nz2 of lines 103-108; line = <<x, y, z>>.
Lo(c2, box_size) == IntTrunc(c2) - (box_size \div 2)
Hi(c2, box_size) == IntTrunc(c2) + (box_size \div 2)

\* subvol.shape of line 110: volume[nz1:nz2, ny1:ny2, nx1:nx2].
SubvolShape(line, shape, box_size) ==
    << SliceLen(Lo(line[3], box_size), Hi(line[3], box_size), shape[1]),
       SliceLen(Lo(line[2], box_size), Hi(line[2], box_size), shape[2]),
       SliceLen(Lo(line[1], box_size), Hi(line[1], box_size), shape[3]) >>

\* Variant: only the first axis of the shape is compared.
Accepted_first_axis(line, shape, box_size) ==
    SubvolShape(line, shape, box_size)[1] = box_size

\* The negation of the test of line 111.
Accepted(line, shape, box_size) ==
    SubvolShape(line, shape, box_size) = <<box_size, box_size, box_size>>

\* First index of the window on each axis, in volume order z, y, x.
SubvolOrigin(line, shape, box_size) ==
    << SliceStart(Lo(line[3], box_size), shape[1]),
       SliceStart(Lo(line[2], box_size), shape[2]),
       SliceStart(Lo(line[1], box_size), shape[3]) >>

----------------------------------------------------------------------------
(* project_subvolumes_to_2d *)

\* Variant: the clamp of n is one short of the depth.
n_eff_short(n, z_size) == Min(n, z_size - 1)
n_eff(n, z_size) == Min(n, z_size)
\* Variant: the middle is rounded up.
middle_z_ceil(z_size) == (z_size + 1) \div 2
middle_z(z_size) == z_size \div 2
start_z0(n, z_size) == Max(0, middle_z(z_size) - (n_eff(n, z_size) \div 2))
\* Variant: the window ends n_eff // 2 after the middle, as the extraction
\* window does around its centre.
end_z_symmetric(n, z_size) == Min(z_size, middle_z(z_size) + (n_eff(n, z_size) \div 2))
end_z(n, z_size) == Min(z_size, start_z0(n, z_size) + n_eff(n, z_size))
start_z(n, z_size) == Max(0, end_z(n, z_size) - n_eff(n, z_size))

\* Sum over slices lo..hi (1-based, inclusive) of the sample at row y, column x.
RECURSIVE SumZ(_, _, _, _, _)
SumZ(data, lo, hi, y, x) ==
    IF lo > hi THEN 0
    ELSE data[lo][y][x] + SumZ(data, lo + 1, hi, y, x)

\* np.sum(subvolume[s:e, :, :], axis=0) for 0 <= s <= e <= depth.
SumSlices(subvolume, s, e) ==
    [shape |-> << subvolume.shape[2], subvolume.shape[3] >>,
     data |-> [y \in 1..subvolume.shape[2] |->
                 [x \in 1..subvolume.shape[3] |->
                     SumZ(subvolume.data, s + 1, e, y, x)]]]

\* The two raises of lines 55-59, in the order of the code.
ProjectRaises(subvolume, n) ==
    IF ndim(subvolume) # 3 THEN "ValueError: Expected 3D subvolume"
    ELSE IF n <= 0 THEN "ValueError: --n must be >= 1"
    ELSE "none"

\* The image returned at line 66.  The sums of the model are small integers,
\* which astype(np.float32) leaves unchanged.
projected_image(subvolume, n) ==
    SumSlices(subvolume, start_z(n, subvolume.shape[1]), end_z(n, subvolume.shape[1]))

----------------------------------------------------------------------------
(* Strings and paths *)

Digit(d) == << "0", "1", "2", "3", "4", "5", "6", "7", "8", "9" >>[d + 1]

\* str(n) for n >= 0.
RECURSIVE str(_)
str(n) == IF n < 10 THEN << Digit(n) >> ELSE str(n \div 10) \o << Digit(n % 10) >>

\* s.zfill(width) for a string of digits.
zfill(s, width) ==
    IF Len(s) >= width THEN s ELSE [k \in 1..(width - Len(s)) |-> "0"] \o s

ZfillWidth == 4

Dir3D == << "3", "D", "_", "s", "u", "b", "v", "o", "l", "u", "m", "e", "s", "/" >>
Dir2D == << "2", "D", "_", "p", "r", "o", "j", "e", "c", "t", "i", "o", "n", "s", "/" >>
Prefix2D == << "2", "D", "_" >>
ExtMrc == << ".", "m", "r", "c" >>

\* Variant: the whole path, directories included.
PathName_whole(file) == file

\* Path(file).name: what follows the last "/".
RECURSIVE PathName(_)
PathName(file) ==
    IF \E k \in 1..Len(file) : file[k] = "/"
    THEN PathName(Tail(file))
    ELSE file

\* Lines 114-115.
SubvolFilename(tomoname, pid, num) ==
    tomoname \o << "_" >> \o pid \o << "_" >> \o zfill(str(num), ZfillWidth) \o ExtMrc

\* mrcfile.new(path, overwrite=True) followed by set_data: the file at path
\* is created or replaced.
WriteFile(d, path, content) ==
    [q \in (DOMAIN d) \cup {path} |-> IF q = path THEN content ELSE d[q]]

NoFiles == [q \in {} |-> <<>>]

----------------------------------------------------------------------------
(* Inputs of a run *)

MaxTomos == 2      \* tomogram list of at most MaxTomos names
MaxCoords == 2     \* coordinate file of at most MaxCoords rows
MaxRunN == 1       \* --n in 0..MaxRunN

Tomonames == { << "a" >>, << "b" >> }
Pid == << "p" >>

\* A tomogram file: shape <<nz, ny, nx>>, samples and voxel size.
Volumes == { [shape |-> <<4, 5, 6>>, base |-> 0, apix |-> 1] }
NoFile == [missing |-> TRUE]
NoCoordFile == << "no file" >>

\* The sample of a tomogram at 0-based index (z, y, x).
Voxel(vol, z, y, x) == vol.base + 100 * z + 10 * y + x

\* Rows of a coordinate file: x, y, z in half voxels, or a row with too few
\* fields, which the indexing of lines 144-146 rejects.
RunLines == { <<5, 5, 5>>, <<11, 5, 5>>, <<0, 4, 4>> }
BadRow == <<>>

SeqsUpTo(S, m) == UNION {[1..k -> S] : k \in 0..m}

CoordFiles == SeqsUpTo(RunLines \cup {BadRow}, MaxCoords)

\* The volume file and the coordinate file of one tomogram name.
TomoFiles == [vol : Volumes \cup {NoFile}, cf : CoordFiles \cup {NoCoordFile}]
TomogramLists == SeqsUpTo(Tomonames, MaxTomos)

----------------------------------------------------------------------------
(* extract_and_write, one coordinate line per step *)

\* volume[nz1:nz2, ny1:ny2, nx1:nx2] of line 110.
Subvol(line, vol, box_size) ==
    LET sh == SubvolShape(line, vol.shape, box_size)
        o  == SubvolOrigin(line, vol.shape, box_size)
    IN [shape |-> sh,
        data |-> [k \in 1..sh[1] |-> [j \in 1..sh[2] |-> [i \in 1..sh[3] |->
                    Voxel(vol, o[1] + k - 1, o[2] + j - 1, o[3] + i - 1)]]]]

\* subvol * -1 of line 113; the samples of the model are small integers,
\* which astype(np.float32) leaves unchanged.
Invert(subvol) ==
    [shape |-> subvol.shape,
     data |-> [k \in 1..subvol.shape[1] |-> [j \in 1..subvol.shape[2] |->
                 [i \in 1..subvol.shape[3] |-> subvol.data[k][j][i] * (-1)]]]]

\* Variant: the counter advances for every line, skipped or not.
NextPnum_every_line(num, accepted) == num + 1

\* pnum after one line: the continue of line 112 skips line 121.
NextPnum(num, accepted) == IF accepted THEN num + 1 ELSE num

\* Lines 102-121 for the line coords[ci].
ExtractStep ==
    /\ pc = "extract_loop" /\ ci <= Len(coords)
    /\ LET line == coords[ci]
           tomoname == filenames[ti]
           filename == SubvolFilename(tomoname, args.id, pnum)
           accepted == Accepted(line, volume.shape, args.boxsize)
       IN /\ IF ~accepted
             THEN UNCHANGED << disk, written_files >>
             ELSE /\ disk' = WriteFile(disk, Dir3D \o filename,
                                 [data |-> Invert(Subvol(line, volume, args.boxsize)),
                                  voxel_size |-> volume.apix])
                  /\ written_files' = Append(written_files, << filename, line >>)
          /\ pnum' = NextPnum(pnum, accepted)
    /\ ci' = ci + 1
    /\ UNCHANGED << args, fs, df, pc, err, filenames, ti, volume, coords,
                    all_written_files, all_coords, all_tomonames, all_subvolumes,
                    all_coords_2d, all_tomonames_2d, wp, star3d, star2d, call >>

----------------------------------------------------------------------------
(* run_extraction_mode *)

Raise(e) ==
    /\ err' = e
    /\ pc' = "error"

\* Variant: the X and Z columns are exchanged.
DataFrame_swapped(xyz, images, names, namecol) ==
    [k \in 1..Len(images) |->
        [rlnCoordinateX |-> xyz[k][3], rlnCoordinateY |-> xyz[k][2],
         rlnCoordinateZ |-> xyz[k][1], rlnImageName |-> images[k],
         namecol |-> namecol, name |-> names[k]]]

\* pd.DataFrame(data) of columns of equal length, as a sequence of rows; the
\* last column is named namecol.
DataFrame(xyz, images, names, namecol) ==
    [k \in 1..Len(images) |->
        [rlnCoordinateX |-> xyz[k][1], rlnCoordinateY |-> xyz[k][2],
         rlnCoordinateZ |-> xyz[k][3], rlnImageName |-> images[k],
         namecol |-> namecol, name |-> names[k]]]

\* The options of extraction mode, lines 36-45; an option that is not on the
\* command line has the value None.
Options == { "tomograms", "vol_dir", "coord_dir", "boxsize", "id" }

\* Lines 208-211: Path(None) raises TypeError (--out is required by the
\* parser, line 43).
PathOfNone(a) == ~({ "tomograms", "vol_dir", "coord_dir" } \subseteq a.given)

\* The test of line 215: None, the box size 0 and the empty identifier are
\* all false.
AllRequired(a) ==
    /\ { "tomograms", "vol_dir", "coord_dir" } \subseteq a.given
    /\ "boxsize" \in a.given /\ a.boxsize # 0
    /\ "id" \in a.given /\ a.id # <<>>

\* Variant: extraction inputs take precedence over the input table.
StarMode_unless_boxsize(a) == a.in_star /\ ~AllRequired(a)

\* The test of line 291: args.in_star is a path, true when it was given.
StarMode(a) == a.in_star

\* run dispatching to run_extraction_mode, lines 289-294 and 206-232: the
\* test on the required inputs, then the tomogram list is read.
RunExtraction ==
    /\ pc = "run" /\ ~StarMode(args)
    /\ IF PathOfNone(args)
       THEN /\ Raise("TypeError: expected str, bytes or os.PathLike object, not NoneType")
            /\ UNCHANGED << filenames, ti >>
       ELSE IF ~AllRequired(args)
       THEN /\ Raise("ValueError: Extraction mode requires")
            /\ UNCHANGED << filenames, ti >>
       ELSE /\ \E fl \in TomogramLists : filenames' = fl
            /\ ti' = 1
            /\ pc' = "tomo_loop"
            /\ UNCHANGED err
    /\ UNCHANGED << args, fs, df, volume, coords, ci, pnum, written_files,
                    all_written_files, all_coords, all_tomonames, all_subvolumes,
                    all_coords_2d, all_tomonames_2d, wp, disk, star3d, star2d, call >>

\* Lines 234-242 and 100-101: read_volume, read_apix and get_coordinates for
\* the next tomogram, then extract_and_write is entered.
ReadTomogram ==
    /\ pc = "tomo_loop" /\ ti <= Len(filenames)
    /\ \E f \in (IF filenames[ti] \in DOMAIN fs THEN {fs[filenames[ti]]} ELSE TomoFiles) :
         /\ fs' = [q \in (DOMAIN fs) \cup {filenames[ti]} |->
                      IF q = filenames[ti] THEN f ELSE fs[q]]
         /\ IF f.vol = NoFile
            THEN /\ Raise("ValueError: Your input volume does not exist.")
                 /\ UNCHANGED << volume, coords, ci, pnum, written_files >>
            ELSE IF f.cf = NoCoordFile
            THEN /\ Raise("FileNotFoundError: coordinate file")
                 /\ UNCHANGED << volume, coords, ci, pnum, written_files >>
            ELSE IF \E k \in 1..Len(f.cf) : f.cf[k] = BadRow
            THEN /\ Raise("ValueError: malformed coordinate row")
                 /\ UNCHANGED << volume, coords, ci, pnum, written_files >>
            ELSE /\ volume' = f.vol
                 /\ coords' = f.cf
                 /\ ci' = 1
                 /\ pnum' = 1
                 /\ written_files' = <<>>
                 /\ pc' = "extract_loop"
                 /\ UNCHANGED err
    /\ UNCHANGED << args, df, filenames, ti, all_written_files, all_coords,
                    all_tomonames, all_subvolumes, all_coords_2d,
                    all_tomonames_2d, wp, disk, star3d, star2d, call >>

\* Lines 122 and 244-256: extract_and_write returns and its results are
\* appended; with --project2D every file just written is read back.
ExtendResults ==
    /\ pc = "extract_loop" /\ ci > Len(coords)
    /\ LET m == Len(written_files)
           filename == filenames[ti]
       IN /\ all_written_files' =
                all_written_files \o [k \in 1..m |-> Dir3D \o written_files[k][1]]
          /\ all_coords' = all_coords \o [k \in 1..m |-> written_files[k][2]]
          /\ all_tomonames' = all_tomonames \o [k \in 1..m |-> filename]
          /\ IF args.project2D
             THEN /\ all_subvolumes' = all_subvolumes \o
                        [k \in 1..m |-> disk[Dir3D \o written_files[k][1]].data]
                  /\ all_coords_2d' =
                        all_coords_2d \o [k \in 1..m |-> written_files[k][2]]
                  /\ all_tomonames_2d' =
                        all_tomonames_2d \o [k \in 1..m |-> filename]
             ELSE UNCHANGED << all_subvolumes, all_coords_2d, all_tomonames_2d >>
    /\ ti' = ti + 1
    /\ pc' = "tomo_loop"
    /\ UNCHANGED << args, fs, df, err, filenames, volume, coords, ci, pnum,
                    written_files, wp, disk, star3d, star2d, call >>

\* The parameters of a call of write_projected_images, lines 68-83.
EnterWriteProjected(subvolumes, n, xyz, files, tomonames) ==
    /\ wp' = [subvolumes |-> subvolumes, n |-> n, coords |-> xyz,
              written_files |-> files, tomonames |-> tomonames,
              i |-> 0, data |-> <<>>]
    /\ pc' = "project_loop"

\* Variant: the test of line 269 without the test on the length.
ShouldProject_flag_only(a, subvolumes) == a.project2D

\* The test of line 269.
ShouldProject(a, subvolumes) == a.project2D /\ Len(subvolumes) > 0

\* Lines 258-271: the 3D table is written once the tomogram loop has ended,
\* then write_projected_images is called if asked for and not empty.
WriteStar3D ==
    /\ pc = "tomo_loop" /\ ti > Len(filenames)
    /\ star3d' = [written |-> TRUE,
                  rows |-> DataFrame(all_coords, all_written_files, all_tomonames,
                                     "rlnTomoName")]
    /\ IF ShouldProject(args, all_subvolumes)
       THEN EnterWriteProjected(all_subvolumes, args.n, all_coords_2d,
                                all_written_files, all_tomonames_2d)
       ELSE /\ pc' = "done"
            /\ UNCHANGED wp
    /\ UNCHANGED << args, fs, df, err, filenames, ti, volume, coords, ci, pnum,
                    written_files, all_written_files, all_coords, all_tomonames,
                    all_subvolumes, all_coords_2d, all_tomonames_2d, disk,
                    star2d, call >>

----------------------------------------------------------------------------
(* write_projected_images *)

\* zip(subvolumes, coords, written_files) stops at the shortest.
ZipLen(w) == Min(Len(w.subvolumes), Min(Len(w.coords), Len(w.written_files)))

\* Lines 84-94 for the element of index wp.i.
ProjectStep ==
    /\ pc = "project_loop" /\ wp.i < ZipLen(wp)
    /\ LET subvolume == wp.subvolumes[wp.i + 1]
           xyz == wp.coords[wp.i + 1]
           file == wp.written_files[wp.i + 1]
           filename == Prefix2D \o PathName(file)
           tomo == IF wp.i < Len(wp.tomonames) THEN wp.tomonames[wp.i + 1] ELSE <<>>
       IN IF ProjectRaises(subvolume, wp.n) # "none"
          THEN /\ Raise(ProjectRaises(subvolume, wp.n))
               /\ UNCHANGED << wp, disk >>
          ELSE /\ disk' = WriteFile(disk, Dir2D \o filename,
                                    [data |-> projected_image(subvolume, wp.n)])
               /\ wp' = [wp EXCEPT
                           !.i = wp.i + 1,
                           !.data = Append(wp.data,
                               [rlnCoordinateX |-> xyz[1], rlnCoordinateY |-> xyz[2],
                                rlnCoordinateZ |-> xyz[3],
                                rlnImageName |-> Dir2D \o filename,
                                namecol |-> "rlnMicrographName", name |-> tomo])]
               /\ UNCHANGED << pc, err >>
    /\ UNCHANGED << args, fs, df, filenames, ti, volume, coords, ci, pnum, written_files,
                    all_written_files, all_coords, all_tomonames, all_subvolumes,
                    all_coords_2d, all_tomonames_2d, star3d, star2d, call >>

\* Lines 95-96: the 2D table is written after the loop; the run ends.
WriteStar2D ==
    /\ pc = "project_loop" /\ wp.i >= ZipLen(wp)
    /\ star2d' = [written |-> TRUE, rows |-> wp.data]
    /\ pc' = "done"
    /\ UNCHANGED << args, fs, df, err, filenames, ti, volume, coords, ci, pnum,
                    written_files, all_written_files, all_coords, all_tomonames,
                    all_subvolumes, all_coords_2d, all_tomonames_2d, wp, disk,
                    star3d, call >>

----------------------------------------------------------------------------
(* run_star_mode and load_subvolumes_from_star *)

MaxRows == 2       \* input table of at most MaxRows rows

\* Arrays found in the files an input table names.
Array3 == [shape |-> <<2, 1, 2>>, data |-> << <<<<1, 2>>>>, <<<<3, 4>>>> >>]
Array3b == [shape |-> <<3, 1, 2>>, data |-> << <<<<5, 0>>>>, <<<<0, 6>>>>, <<<<7, 7>>>> >>]
Array4 == [shape |-> <<1, 2, 1, 2>>, data |-> << << <<<<8, 9>>>>, <<<<1, 1>>>> >> >>]
Array4x2 == [shape |-> <<2, 1, 1, 2>>, data |-> << << <<<<1, 2>>>> >>, << <<<<3, 4>>>> >> >>]
Array2 == [shape |-> <<1, 2>>, data |-> << <<1, 2>> >>]

\* arr[0]
First(arr) == [shape |-> Tail(arr.shape), data |-> arr.data[1]]

\* Rows of an input table with, for each, what is found at the image path
\* taken relative to the table (rel) and taken as it stands (bare).
StarRows ==
    { [rlnImageName |-> << "x", "/", "s" >>, rel |-> Array3, bare |-> NoFile,
       xyz |-> <<2, 4, 6>>, rlnTomoName |-> << "a" >>, rlnMicrographName |-> << "m" >>],
      [rlnImageName |-> << "y", "/", "s" >>, rel |-> NoFile, bare |-> Array4,
       xyz |-> <<3, 5, 7>>, rlnTomoName |-> << "b" >>, rlnMicrographName |-> << "m" >>],
      [rlnImageName |-> << "v" >>, rel |-> Array3b, bare |-> Array3,
       xyz |-> <<1, 1, 1>>, rlnTomoName |-> << "b" >>, rlnMicrographName |-> << "k" >>],
      [rlnImageName |-> << "t" >>, rel |-> NoFile, bare |-> NoFile,
       xyz |-> <<2, 2, 2>>, rlnTomoName |-> << "a" >>, rlnMicrographName |-> << "k" >>],
      [rlnImageName |-> << "u" >>, rel |-> Array2, bare |-> NoFile,
       xyz |-> <<2, 2, 2>>, rlnTomoName |-> << "a" >>, rlnMicrographName |-> << "k" >>],
      [rlnImageName |-> << "w" >>, rel |-> NoFile, bare |-> Array4x2,
       xyz |-> <<2, 2, 2>>, rlnTomoName |-> << "a" >>, rlnMicrographName |-> << "k" >>] }

StarColumns == { "rlnImageName", "rlnCoordinateX", "rlnCoordinateY",
                 "rlnCoordinateZ", "rlnTomoName", "rlnMicrographName" }

StarTables == [columns : SUBSET StarColumns, rows : SeqsUpTo(StarRows, MaxRows)]

\* Variant: the path as it stands is tried first.
Resolve_bare_first(row) == IF row.bare # NoFile THEN row.bare ELSE row.rel

\* Lines 190-194: the file the image path of a row resolves to, or NoFile.
Resolve(row) == IF row.rel # NoFile THEN row.rel ELSE row.bare

\* Variant: every 4D array is accepted.
RankOk_any4d(arr) == ndim(arr) = 3 \/ ndim(arr) = 4

\* Lines 197-202: the subvolume of an array, or the raise.
RankOk(arr) == ndim(arr) = 3 \/ (ndim(arr) = 4 /\ arr.shape[1] = 1)
AsSubvol(arr) == IF ndim(arr) = 3 THEN arr ELSE First(arr)

\* What the loop of lines 189-203 raises at row r, if anything.
RowRaises(row) ==
    IF Resolve(row) = NoFile THEN "FileNotFoundError: Subvolume file not found"
    ELSE IF ~RankOk(Resolve(row)) THEN "ValueError: not a 3D subvolume"
    ELSE "none"

\* Variant: the loop only looks for the files and leaves the rank to the
\* projector.
LoadRaises_paths_only(t) ==
    IF "rlnImageName" \notin t.columns
    THEN "ValueError: STAR file must contain 'rlnImageName'."
    ELSE IF \E k \in 1..Len(t.rows) : Resolve(t.rows[k]) = NoFile
    THEN "FileNotFoundError: Subvolume file not found"
    ELSE "none"

\* What load_subvolumes_from_star raises: the column test of line 170, then
\* the first row of the loop that fails.
LoadRaises(t) ==
    IF "rlnImageName" \notin t.columns
    THEN "ValueError: STAR file must contain 'rlnImageName'."
    ELSE IF \E k \in 1..Len(t.rows) : RowRaises(t.rows[k]) # "none"
    THEN LET k == CHOOSE j \in 1..Len(t.rows) :
                    /\ RowRaises(t.rows[j]) # "none"
                    /\ \A h \in 1..(j - 1) : RowRaises(t.rows[h]) = "none"
         IN RowRaises(t.rows[k])
    ELSE "none"

\* Variant: the three defaults depend on the X column alone.
StarCoord_x_only(t, k, col, axis) ==
    IF "rlnCoordinateX" \in t.columns THEN t.rows[k].xyz[axis] ELSE 0

\* Lines 176-179: a coordinate column, or zeros when it is absent.
StarCoord(t, k, col, axis) == IF col \in t.columns THEN t.rows[k].xyz[axis] ELSE 0
StarCoords(t) ==
    [k \in 1..Len(t.rows) |->
        << StarCoord(t, k, "rlnCoordinateX", 1), StarCoord(t, k, "rlnCoordinateY", 2),
           StarCoord(t, k, "rlnCoordinateZ", 3) >>]

\* Lines 181-186.
StarTomoNames(t) ==
    [k \in 1..Len(t.rows) |->
        IF "rlnTomoName" \in t.columns THEN t.rows[k].rlnTomoName
        ELSE IF "rlnMicrographName" \in t.columns THEN t.rows[k].rlnMicrographName
        ELSE <<>>]

\* run dispatching to run_star_mode, lines 289-292 and 273-286: the table is
\* loaded whole, then write_projected_images is called.
RunStar ==
    /\ pc = "run" /\ StarMode(args)
    /\ \E t \in StarTables :
         /\ df' = t
         /\ IF LoadRaises(t) # "none"
            THEN /\ Raise(LoadRaises(t))
                 /\ UNCHANGED wp
            ELSE /\ EnterWriteProjected(
                       [k \in 1..Len(t.rows) |-> AsSubvol(Resolve(t.rows[k]))],
                       args.n, StarCoords(t),
                       [k \in 1..Len(t.rows) |-> t.rows[k].rlnImageName],
                       StarTomoNames(t))
                 /\ UNCHANGED err
    /\ UNCHANGED << args, fs, filenames, ti, volume, coords, ci, pnum, written_files,
                    all_written_files, all_coords, all_tomonames, all_subvolumes,
                    all_coords_2d, all_tomonames_2d, disk, star3d, star2d, call >>

----------------------------------------------------------------------------
(* One run of the script *)

NoArgs == [in_star |-> FALSE, project2D |-> FALSE, n |-> 1, boxsize |-> 0, id |-> <<>>,
           given |-> {}]
NoTable == [written |-> FALSE, rows |-> <<>>]
NoDf == [columns |-> {}, rows |-> <<>>]
NoWp == [subvolumes |-> <<>>, n |-> 1, coords |-> <<>>, written_files |-> <<>>,
         tomonames |-> <<>>, i |-> 0, data |-> <<>>]

\* The state before run(args), apart from args and pc.
Fresh ==
    /\ fs = NoFiles
    /\ df = NoDf
    /\ err = "none"
    /\ filenames = <<>> /\ ti = 0
    /\ volume = <<>> /\ coords = <<>> /\ ci = 0
    /\ pnum = 0 /\ written_files = <<>>
    /\ all_written_files = <<>> /\ all_coords = <<>> /\ all_tomonames = <<>>
    /\ all_subvolumes = <<>> /\ all_coords_2d = <<>> /\ all_tomonames_2d = <<>>
    /\ wp = NoWp /\ disk = NoFiles /\ star3d = NoTable /\ star2d = NoTable

\* Command lines: the field of an option that is not given is not read (0
\* stands for the absent box size); with an input table the extraction
\* options are given all together or not at all.
RunArgs ==
    { a \in [in_star : BOOLEAN, project2D : BOOLEAN, n : 0..MaxRunN,
             boxsize : 0..MaxBox, id : {Pid}, given : SUBSET Options] :
        /\ "boxsize" \notin a.given => a.boxsize = 0
        /\ a.in_star => a.given \in {Options, {}} }

Init ==
    /\ args \in RunArgs
    /\ pc = "run"
    /\ Fresh
    /\ call = [fn |-> "none"]

Next ==
    \/ RunExtraction
    \/ ReadTomogram
    \/ ExtractStep
    \/ ExtendResults
    \/ WriteStar3D
    \/ RunStar
    \/ ProjectStep
    \/ WriteStar2D

Spec == Init /\ [][Next]_vars

----------------------------------------------------------------------------
(* Harnesses: one call of a pure function on inputs drawn from bounded sets *)

\* No run of the script is in progress.
NoRun == args = NoArgs /\ pc = "idle" /\ Fresh

\* Extents of a harness volume on one axis, and coordinates in half voxels
\* from below zero to beyond the far edge.
HarnessDims == (MaxDim - 1)..MaxDim
HarnessCoords == (-(MaxBox + 1))..(2 * MaxDim + 1)

InitWindow ==
    /\ NoRun
    /\ call \in [fn : {"window"}, done : {FALSE},
                  box_size : 1..MaxBox,
                  shape : HarnessDims \X HarnessDims \X HarnessDims,
                  line : HarnessCoords \X HarnessCoords \X HarnessCoords,
                  subvol_shape : {<<>>}, accepted : {FALSE}]

\* Lines 103-111 for one coordinate line.
ApplyWindow ==
    /\ call.fn = "window" /\ ~call.done
    /\ call' = [call EXCEPT
                   !.done = TRUE,
                   !.subvol_shape = SubvolShape(call.line, call.shape, call.box_size),
                   !.accepted = Accepted(call.line, call.shape, call.box_size)]
    /\ UNCHANGED runVars

SpecWindow == InitWindow /\ [][ApplyWindow]_vars

\* Subvolumes of the projection harness: d slices of 1 x 2 samples.
HarnessSamples == {0, 1}
HarnessSlices == [1..1 -> [1..2 -> HarnessSamples]]
HarnessSubvolumes ==
    UNION {{[shape |-> <<d, 1, 2>>, data |-> a] : a \in [1..d -> HarnessSlices]} :
           d \in 1..MaxDepth}

InitProject ==
    /\ NoRun
    /\ call \in [fn : {"project"}, done : {FALSE},
                  subvolume : HarnessSubvolumes, n : (-1)..MaxN,
                  raised : {FALSE}, start_z : {0}, end_z : {0}, image : {<<>>}]

\* project_subvolumes_to_2d, lines 53-66.
ApplyProject ==
    /\ call.fn = "project" /\ ~call.done
    /\ call' = IF ProjectRaises(call.subvolume, call.n) # "none"
               THEN [call EXCEPT !.done = TRUE, !.raised = TRUE]
               ELSE [call EXCEPT
                       !.done = TRUE,
                       !.start_z = start_z(call.n, call.subvolume.shape[1]),
                       !.end_z = end_z(call.n, call.subvolume.shape[1]),
                       !.image = projected_image(call.subvolume, call.n)]
    /\ UNCHANGED runVars

SpecProject == InitProject /\ [][ApplyProject]_vars

----------------------------------------------------------------------------
(* Claims about the extraction window (SpecWindow) *)

\* b/2 <= c < dim - b/2 for the truncated centre c, without rounding b/2.
WellInside(c2, dim, b) == b <= 2 * IntTrunc(c2) /\ 2 * IntTrunc(c2) < 2 * dim - b

\* x, y, z of a line go with the last, middle and first axis of the volume.
AxisDim(shape, k) == shape[4 - k]

\* C1: for every box size b >= 1, even or odd, a coordinate whose truncated
\* centre is within [b/2, dim - b/2) on all three axes yields a slice of
\* shape (b, b, b) and is accepted.
C1_AnyBoxInsideAccepted ==
    (call.fn = "window" /\ call.done
        /\ \A k \in 1..3 :
              WellInside(call.line[k], AxisDim(call.shape, k), call.box_size))
    => (call.subvol_shape = <<call.box_size, call.box_size, call.box_size>>
        /\ call.accepted)

\* C3: a coordinate is accepted only if on every axis its window satisfies
\* 0 <= int(c) - b//2 and int(c) + b//2 <= dim.
C3_AcceptedWindowInVolume ==
    (call.fn = "window" /\ call.done /\ call.accepted)
    => \A k \in 1..3 :
          /\ 0 <= Lo(call.line[k], call.box_size)
          /\ Hi(call.line[k], call.box_size) <= AxisDim(call.shape, k)

----------------------------------------------------------------------------
(* Claims about a run (Spec) *)

\* A state of extract_and_write about to handle the line coords[ci].
AtLine == pc = "extract_loop" /\ ci <= Len(coords)

\* The line leaves the files on disk, the list of written files (from which
\* alone the rows of the 3D table are made) and the counter as they are.
LineDropped ==
    disk' = disk /\ written_files' = written_files /\ pnum' = pnum

\* The coordinate as read, c = c2 / 2, is within [0, dim] and closer than
\* b/2 to an edge on some axis.
NearEdgeAsRead(line, shape, b) ==
    \E k \in 1..3 :
        LET c2 == line[k]
            dim == AxisDim(shape, k)
        IN 0 <= c2 /\ c2 <= 2 * dim /\ (c2 < b \/ c2 > 2 * dim - b)

\* The same for the truncated coordinate int(c).
NearEdgeTruncated(line, shape, b) ==
    \E k \in 1..3 :
        LET c == IntTrunc(line[k])
            dim == AxisDim(shape, k)
        IN 0 <= c /\ c <= dim /\ (2 * c < b \/ 2 * c > 2 * dim - b)

\* C2 as stated: a coordinate that on some axis lies closer than b/2 to a
\* volume edge (c < b/2 or c > dim - b/2, 0 <= c <= dim) writes no file,
\* adds no row and leaves the sequence counter unchanged.
C2_NearEdgeDropped ==
    [][(AtLine /\ NearEdgeAsRead(coords[ci], volume.shape, args.boxsize))
        => LineDropped]_vars

\* C2 amended: a coordinate whose integer-truncated value int(c) on some axis
\* satisfies int(c) < b/2 or int(c) > dim - b/2, with 0 <= int(c) <= dim,
\* writes no file, adds no row and leaves the sequence counter unchanged.
C2_TruncatedNearEdgeDropped ==
    [][(AtLine /\ NearEdgeTruncated(coords[ci], volume.shape, args.boxsize))
        => LineDropped]_vars

\* C2 witness: after one accepted line, a line near an edge has been handled
\* and the counter still stands at 2 with one file written.
C2_Witness ==
    /\ pc = "extract_loop" /\ ci = 3
    /\ Accepted(coords[1], volume.shape, args.boxsize)
    /\ NearEdgeTruncated(coords[2], volume.shape, args.boxsize)
    /\ pnum = 2 /\ Len(written_files) = 1
    /\ Cardinality(DOMAIN disk) = 1

\* A sequence number below 10 padded to four digits.
Pad4(k) == << "0", "0", "0", Digit(k) >>

\* <tomogram>_<id>_<k padded>.mrc
NumberedName(tomoname, k) ==
    tomoname \o << "_" >> \o args.id \o << "_" >> \o Pad4(k) \o << ".", "m", "r", "c" >>

\* The lines among the first m of cf that the volume of shape accepts.
AcceptedAmong(cf, m, shape) ==
    SelectSeq(SubSeq(cf, 1, m), LAMBDA l : Accepted(l, shape, args.boxsize))

\* C4: within one tomogram the counter starts at 1, the k-th accepted
\* coordinate in input order is written as <tomogram>_<id>_<k on 4 digits>.mrc
\* and skipped coordinates consume no number: after m accepted lines the
\* numbers used are exactly 1..m.
C4_SequenceNumbers ==
    pc = "extract_loop" =>
        LET acc == AcceptedAmong(coords, ci - 1, volume.shape) IN
        /\ pnum = Len(acc) + 1
        /\ Len(written_files) = Len(acc)
        /\ \A k \in 1..Len(acc) :
              /\ written_files[k] = << NumberedName(filenames[ti], k), acc[k] >>
              /\ (Dir3D \o NumberedName(filenames[ti], k)) \in DOMAIN disk

\* C4 witness: the first line was skipped and the second, accepted, got
\* number 1.
C4_Witness ==
    /\ pc = "extract_loop" /\ ci = 3
    /\ ~Accepted(coords[1], volume.shape, args.boxsize)
    /\ Accepted(coords[2], volume.shape, args.boxsize)
    /\ pnum = 2
    /\ written_files[1][1] = << "a", "_", "p", "_", "0", "0", "0", "1", ".", "m", "r", "c" >>

\* The rows of the 3D table that the tomogram name contributes.
RowsOf(name) ==
    LET acc == AcceptedAmong(fs[name].cf, Len(fs[name].cf), fs[name].vol.shape)
    IN [k \in 1..Len(acc) |->
          [rlnCoordinateX |-> acc[k][1], rlnCoordinateY |-> acc[k][2],
           rlnCoordinateZ |-> acc[k][3],
           rlnImageName |-> Dir3D \o NumberedName(name, k),
           namecol |-> "rlnTomoName", name |-> name]]

RECURSIVE ExpectedRows(_)
ExpectedRows(list) ==
    IF list = <<>> THEN <<>> ELSE RowsOf(Head(list)) \o ExpectedRows(Tail(list))

\* C5: after a completed extraction-mode run the 3D table has exactly one
\* row per accepted coordinate, in tomogram-list order then coordinate-file
\* order, each row holding the coordinate as read, the path
\* 3D_subvolumes/<file> and the tomogram name of the same accepted
\* coordinate; the table is written even when it has no rows.
C5_Table3D ==
    (pc = "done" /\ ~args.in_star)
    => (star3d.written /\ star3d.rows = ExpectedRows(filenames))

\* C5 witness: a completed run over two different tomograms with a skipped
\* line has written a table of at least three rows.
C5_Witness ==
    /\ pc = "done" /\ ~args.in_star /\ star3d.written
    /\ Len(filenames) = 2 /\ filenames[1] # filenames[2]
    /\ Len(star3d.rows) >= 3
    /\ \E q \in DOMAIN fs :
          Len(AcceptedAmong(fs[q].cf, Len(fs[q].cf), fs[q].vol.shape)) < Len(fs[q].cf)

\* C8: a run that aborts with an error has written no metadata table,
\* neither the 3D table nor the 2D table.
C8_AbortWritesNoTable ==
    pc = "error" => (~star3d.written /\ ~star2d.written)

\* C9 as stated: a completed extraction-mode run writes the 2D table as well
\* as the 3D table when the projection flag is set, whatever the number of
\* accepted subvolumes, and only the 3D table without the flag.
C9_FlagWritesTable2D ==
    (pc = "done" /\ ~args.in_star)
    => (star3d.written /\ (star2d.written <=> args.project2D))

\* C9 amended: a completed extraction-mode run writes the 3D table; it writes
\* the 2D table as well exactly when the projection flag is set and at least
\* one subvolume was accepted.
C9_Table2DIfAnyAccepted ==
    (pc = "done" /\ ~args.in_star)
    => (star3d.written
        /\ (star2d.written <=> (args.project2D /\ Len(star3d.rows) > 0)))

\* C9 witness: a completed run with the flag and accepted subvolumes wrote
\* both tables.
C9_Witness ==
    /\ pc = "done" /\ ~args.in_star /\ args.project2D
    /\ Len(star3d.rows) > 0 /\ star3d.written /\ star2d.written

\* A file under 2D_projections/ exists.
IsProjectionPath(q) == Len(q) > Len(Dir2D) /\ SubSeq(q, 1, Len(Dir2D)) = Dir2D

\* C10: with the projection flag or in projection-only mode, a slice count
\* n < 1 makes the run fail, for every input, and no projection file is
\* written.
C10_BadSliceCountFails ==
    (args.n < 1 /\ (args.in_star \/ args.project2D))
    => (pc # "done" /\ \A q \in DOMAIN disk : ~IsProjectionPath(q))

----------------------------------------------------------------------------
(* Claims about the projection window (SpecProject) *)

\* C6: for every depth d >= 1 and slice count n >= 1 the window [start, end)
\* satisfies 0 <= start <= end <= d and end - start = min(n, d).
C6_WindowSize ==
    (call.fn = "project" /\ call.done /\ call.n >= 1)
    => LET d == call.subvolume.shape[1] IN
       /\ ~call.raised
       /\ 0 <= call.start_z /\ call.start_z <= call.end_z /\ call.end_z <= d
       /\ call.end_z - call.start_z = Min(call.n, d)

\* C6 witness: a window of 2 slices was computed inside a deeper subvolume.
C6_Witness ==
    /\ call.fn = "project" /\ call.done /\ ~call.raised
    /\ call.n = 2 /\ call.subvolume.shape[1] = 4
    /\ call.end_z - call.start_z = 2

\* C7: for every depth d >= 1 and every n >= d the window is [0, d) and the
\* image is the sum of all slices along the first axis.
C7_FullDepth ==
    (call.fn = "project" /\ call.done /\ call.n >= call.subvolume.shape[1])
    => LET d == call.subvolume.shape[1] IN
       /\ ~call.raised
       /\ call.start_z = 0 /\ call.end_z = d
       /\ call.image = SumSlices(call.subvolume, 0, d)

\* C7 witness: n exceeds the depth of a subvolume whose slices are not all
\* zero, and every slice was summed.
C7_Witness ==
    /\ call.fn = "project" /\ call.done /\ ~call.raised
    /\ call.subvolume.shape[1] = 3 /\ call.n = 5
    /\ call.image.data = <<<<3, 2>>>>

----------------------------------------------------------------------------
(* Claims about projection-only mode (Spec) *)

\* What a row of the input table finds on disk, relative path first.
Found(row) == IF row.rel = NoFile THEN row.bare ELSE row.rel
Supported(arr) ==
    \/ Len(arr.shape) = 3
    \/ (Len(arr.shape) = 4 /\ arr.shape[1] = 1)
RowLoads(row) == Found(row) # NoFile /\ Supported(Found(row))
TableLoads(t) ==
    /\ "rlnImageName" \in t.columns
    /\ \A k \in 1..Len(t.rows) : RowLoads(t.rows[k])
StarRunStarted == args.in_star /\ pc # "run"

\* The value of a coordinate column of the input at row k, 0 if absent.
ColumnOrZero(t, k, col, axis) == IF col \in t.columns THEN t.rows[k].xyz[axis] ELSE 0

\* C13: in projection-only mode with an input table of N rows that all
\* resolve to 3D subvolumes, the run (with a slice count n >= 1) completes and
\* the 2D table has N rows in input order; each of X, Y, Z is copied from the
\* input when the column is present and is 0 in every row when it is absent.
C13_StarTable2D ==
    (StarRunStarted /\ TableLoads(df) /\ args.n >= 1)
    => /\ pc # "error"
       /\ pc = "done" =>
            /\ star2d.written
            /\ Len(star2d.rows) = Len(df.rows)
            /\ \A k \in 1..Len(df.rows) :
                 LET out == star2d.rows[k] IN
                 /\ out.rlnCoordinateX = ColumnOrZero(df, k, "rlnCoordinateX", 1)
                 /\ out.rlnCoordinateY = ColumnOrZero(df, k, "rlnCoordinateY", 2)
                 /\ out.rlnCoordinateZ = ColumnOrZero(df, k, "rlnCoordinateZ", 3)
                 /\ out.rlnImageName =
                        Dir2D \o Prefix2D \o PathName(df.rows[k].rlnImageName)

\* C13 witness: a table of two different rows with the Y column and without
\* the X column was projected to the end.
C13_Witness ==
    /\ args.in_star /\ pc = "done" /\ star2d.written
    /\ Len(df.rows) = 2 /\ df.rows[1] # df.rows[2]
    /\ "rlnCoordinateX" \notin df.columns /\ "rlnCoordinateY" \in df.columns
    /\ star2d.rows[2].rlnCoordinateX = 0
    /\ star2d.rows[2].rlnCoordinateY = df.rows[2].xyz[2]

\* C14: in projection-only mode any loader failure on any row k (image-path
\* column missing, a path that resolves neither way, an array of unsupported
\* rank) ends the run with an error, with no projection file and no 2D table.
C14_LoaderFailureWritesNothing ==
    (StarRunStarted /\ ~TableLoads(df))
    => /\ pc = "error"
       /\ err \in { "ValueError: STAR file must contain 'rlnImageName'.",
                    "FileNotFoundError: Subvolume file not found",
                    "ValueError: not a 3D subvolume" }
       /\ DOMAIN disk = {}
       /\ ~star2d.written

\* C14 witness: the second row of a table failed after a first row that
\* loads.
C14_Witness ==
    /\ args.in_star /\ pc = "error" /\ args.n >= 1
    /\ "rlnImageName" \in df.columns
    /\ Len(df.rows) = 2 /\ RowLoads(df.rows[1]) /\ ~RowLoads(df.rows[2])
    /\ DOMAIN disk = {}

\* Row k is the first row of the table that does not load.
FirstFailure(t, k) ==
    /\ k \in 1..Len(t.rows) /\ ~RowLoads(t.rows[k])
    /\ \A h \in 1..(k - 1) : RowLoads(t.rows[h])

\* The 3D array of a supported array.
Collapsed(arr) ==
    IF Len(arr.shape) = 3 THEN arr
    ELSE [shape |-> SubSeq(arr.shape, 2, 4), data |-> arr.data[1]]

\* C15: for each row the file at the path relative to the table is used
\* whenever it exists and the bare path only otherwise; the not-found error
\* is raised exactly when neither exists (at the first row that fails).
C15_RelativeFirst ==
    (StarRunStarted /\ "rlnImageName" \in df.columns)
    => /\ TableLoads(df) =>
            \A k \in 1..Len(df.rows) :
                LET row == df.rows[k] IN
                wp.subvolumes[k] =
                    Collapsed(IF row.rel # NoFile THEN row.rel ELSE row.bare)
       /\ (err = "FileNotFoundError: Subvolume file not found")
            <=> \E k \in 1..Len(df.rows) :
                    /\ FirstFailure(df, k)
                    /\ df.rows[k].rel = NoFile /\ df.rows[k].bare = NoFile

\* C15 witness: a row whose path exists both ways, with different contents,
\* was loaded from the path relative to the table.
C15_Witness ==
    /\ args.in_star /\ pc = "project_loop"
    /\ Len(df.rows) = 2
    /\ df.rows[2].rel # NoFile /\ df.rows[2].bare # NoFile
    /\ df.rows[2].rel # df.rows[2].bare
    /\ wp.subvolumes[2] = df.rows[2].rel

\* C16: the loader accepts an array exactly when it is 3D or 4D with leading
\* dimension 1, which it collapses to the array at index 0; any other array
\* raises the shape error, and every subvolume handed to the projector is 3D.
C16_RankAccepted ==
    (StarRunStarted /\ "rlnImageName" \in df.columns)
    => /\ (err = "ValueError: not a 3D subvolume")
            <=> \E k \in 1..Len(df.rows) :
                    /\ FirstFailure(df, k)
                    /\ Found(df.rows[k]) # NoFile
       /\ pc # "error" =>
            \A k \in 1..Len(df.rows) :
                /\ Supported(Found(df.rows[k]))
                /\ Len(wp.subvolumes[k].shape) = 3
                /\ wp.subvolumes[k] = Collapsed(Found(df.rows[k]))
       /\ err # "ValueError: Expected 3D subvolume"

\* C16 witness: a 4D array with leading dimension 1 was accepted in the first
\* row and a 4D array with leading dimension 2 was refused in the second.
C16_Witness ==
    /\ args.in_star /\ pc = "error" /\ err = "ValueError: not a 3D subvolume"
    /\ Len(df.rows) = 2
    /\ Len(Found(df.rows[1]).shape) = 4 /\ Found(df.rows[1]).shape[1] = 1
    /\ Len(Found(df.rows[2]).shape) = 4 /\ Found(df.rows[2]).shape[1] = 2

----------------------------------------------------------------------------
(* Claims about extraction with projection (Spec) *)

\* The name f of a file of 3D_subvolumes/ given by its path.
FileNameIn3D(path, f) ==
    /\ path = Dir3D \o f
    /\ \A k \in 1..Len(f) : f[k] # "/"

\* C11: in a completed extraction-mode run with the projection flag, the 2D
\* table has as many rows as the 3D table (none is written when there is no
\* row); its i-th row has the coordinate and the tomogram name, as micrograph
\* name, of the i-th 3D row and the image path 2D_projections/2D_<file name of
\* the i-th 3D row>, and that file holds the projection of the i-th
\* subvolume.
C11_ProjectionRows ==
    (pc = "done" /\ ~args.in_star /\ args.project2D)
    => /\ Len(star2d.rows) = Len(star3d.rows)
       /\ Len(star3d.rows) > 0 => star2d.written
       /\ \A i \in 1..Len(star3d.rows) :
            LET r3 == star3d.rows[i]
                r2 == star2d.rows[i]
                f == SubSeq(r3.rlnImageName, Len(Dir3D) + 1, Len(r3.rlnImageName))
            IN /\ FileNameIn3D(r3.rlnImageName, f)
               /\ r2.rlnCoordinateX = r3.rlnCoordinateX
               /\ r2.rlnCoordinateY = r3.rlnCoordinateY
               /\ r2.rlnCoordinateZ = r3.rlnCoordinateZ
               /\ r3.namecol = "rlnTomoName" /\ r2.namecol = "rlnMicrographName"
               /\ r2.name = r3.name
               /\ r2.rlnImageName = Dir2D \o Prefix2D \o f
               /\ r2.rlnImageName \in DOMAIN disk
               /\ disk[r2.rlnImageName].data =
                      projected_image(disk[r3.rlnImageName].data, args.n)

\* C11 witness: a completed run over two tomograms, the first with two
\* coordinate lines of which one was skipped, projected one subvolume of
\* each.
C11_Witness ==
    /\ pc = "done" /\ ~args.in_star /\ args.project2D /\ star2d.written
    /\ Len(filenames) = 2 /\ filenames[1] # filenames[2]
    /\ Len(fs[filenames[1]].cf) = 2
    /\ Len(star2d.rows) = 2
    /\ star2d.rows[1].name = filenames[1] /\ star2d.rows[2].name = filenames[2]

----------------------------------------------------------------------------
(* Claims about the choice of the mode (Spec) *)

Is3DPath(q) == Len(q) > Len(Dir3D) /\ SubSeq(q, 1, Len(Dir3D)) = Dir3D
LoaderErrors ==
    { "ValueError: STAR file must contain 'rlnImageName'.",
      "FileNotFoundError: Subvolume file not found",
      "ValueError: not a 3D subvolume" }

\* C12: one mode runs, chosen by --in_star alone.  With it, whatever the
\* extraction inputs and the projection flag, no tomogram list, volume or
\* coordinate file is read, no 3D subvolume file and no 3D table is written,
\* and a run that completes has written the 2D table; without it the loader
\* of the input table is never invoked.
C12_OneMode ==
    /\ args.in_star =>
         /\ pc \in {"run", "project_loop", "done", "error"}
         /\ filenames = <<>> /\ fs = NoFiles /\ volume = <<>> /\ coords = <<>>
         /\ \A q \in DOMAIN disk : ~Is3DPath(q)
         /\ ~star3d.written
         /\ pc = "done" => star2d.written
         /\ pc # "run" => (pc = "error" /\ wp = NoWp /\ err \in LoaderErrors)
                            \/ wp.written_files =
                                  [k \in 1..Len(df.rows) |-> df.rows[k].rlnImageName]
    /\ ~args.in_star =>
         /\ df = NoDf
         /\ err \notin LoaderErrors
         /\ pc = "project_loop" => star3d.written

\* C12 witness: a run given the input table and every extraction option
\* but not the projection flag projected the rows of the table and wrote
\* the 2D table.
C12_Witness ==
    /\ args.in_star /\ ~args.project2D /\ args.given = Options /\ args.boxsize > 0
    /\ pc = "done" /\ star2d.written /\ Len(star2d.rows) = 2
    /\ ~star3d.written /\ fs = NoFiles

----------------------------------------------------------------------------
(* Claims about the required inputs of extraction mode (Spec) *)

\* Nothing was read or written by the run.
Untouched ==
    /\ filenames = <<>> /\ fs = NoFiles /\ df = NoDf
    /\ DOMAIN disk = {} /\ ~star3d.written /\ ~star2d.written

\* C17: an extraction-mode run with any of --tomograms, --vol_dir,
\* --coord_dir, --boxsize, --id missing fails with the error 'Extraction mode
\* requires ...' before anything is read or written, and a box size or an
\* identifier that was given is never treated as missing.
C17_MissingInputFails ==
    (~args.in_star /\ pc # "run")
    => /\ args.given # Options =>
            /\ pc = "error" /\ err = "ValueError: Extraction mode requires"
            /\ Untouched
       /\ args.given = Options => err # "ValueError: Extraction mode requires"

----------------------------------------------------------------------------
(* Contrast inversion of one sample, lines 113 and 117 (SpecInvert) *)

\* Integer sample types of a volume as read at line 136.
IntDtypes == { "int8", "int16", "uint16" }
Signed(dtype) == dtype \in { "int8", "int16" }
Bits(dtype) == IF dtype = "int8" THEN 8 ELSE 16
MinOf(dtype) == IF Signed(dtype) THEN -(2 ^ (Bits(dtype) - 1)) ELSE 0
MaxOf(dtype) == IF Signed(dtype) THEN 2 ^ (Bits(dtype) - 1) - 1 ELSE 2 ^ Bits(dtype) - 1

\* A value reduced to the two's complement range of a signed type.
WrapSigned(dtype, x) ==
    ((x - MinOf(dtype)) % (2 ^ Bits(dtype))) + MinOf(dtype)

\* Line 113, subvol * -1, for one sample v.  A signed array keeps its type
\* and the product wraps.  An unsigned array is either promoted to int32
\* with the scalar -1 (value-based casting) or the scalar is refused
\* (OverflowError), depending on the numpy that runs the script.
MulMinusOne(dtype, v) ==
    IF Signed(dtype)
    THEN { [raised |-> FALSE, value |-> WrapSigned(dtype, v * (-1))] }
    ELSE { [raised |-> FALSE, value |-> v * (-1)],
           [raised |-> TRUE, value |-> 0] }

\* Line 117, astype(np.float32): every integer of at most 17 bits is a
\* float32.
AsFloat32(x) == x

InitInvert ==
    /\ NoRun
    /\ call \in { [fn |-> "invert", done |-> FALSE, dtype |-> t, v |-> v,
                    raised |-> FALSE, persisted |-> 0] :
                  t \in IntDtypes, v \in -(2 ^ 15)..(2 ^ 16 - 1) }
    /\ call.v \in MinOf(call.dtype)..MaxOf(call.dtype)

\* Lines 113-117 for one sample of an accepted subvolume.
ApplyInvert ==
    /\ call.fn = "invert" /\ ~call.done
    /\ \E r \in MulMinusOne(call.dtype, call.v) :
         call' = [call EXCEPT !.done = TRUE, !.raised = r.raised,
                              !.persisted = AsFloat32(r.value)]
    /\ UNCHANGED runVars

SpecInvert == InitInvert /\ [][ApplyInvert]_vars

\* C18: for every sample value v of every integer sample type, the most
\* negative value of a signed type included, the value persisted is -v
\* (negating it again gives v): the write is reached and the product does
\* not wrap.
C18_InversionExact ==
    (call.fn = "invert" /\ call.done)
    => /\ ~call.raised
       /\ call.persisted * (-1) = call.v

----------------------------------------------------------------------------
(* FIBSEM_scripts/strip_saver.py: the polling loop (SpecStrip) *)

MaxLimit == 5      \* --count_limit in 0..MaxLimit
MaxPolls == 5      \* at most MaxPolls iterations of the loop are followed
MaxCurrent == 2    \* specimen currents 0..MaxCurrent, triggers 1..MaxCurrent

\* What one iteration reads from the microscope: the state of the ion beam
\* and, when it is on, the specimen current.
Readings ==
    { [is_on |-> FALSE, current |-> 0] }
    \cup { [is_on |-> TRUE, current |-> c] : c \in 0..MaxCurrent }

\* Lines 21-40: the counter after one iteration that starts with the counter
\* at i.
CountAfter(i, r, trigger) ==
    IF r.is_on
    THEN IF r.current < trigger THEN i + 1 ELSE 1
    ELSE 1

\* Lines 33-35: the beams are switched off in an iteration that found the
\* ion beam on and ends with the counter at limit - 1.
TurnsOff(i, r, trigger, limit) == r.is_on /\ CountAfter(i, r, trigger) = limit - 1

\* After microscope.connect() and i = 1, lines 18-19.
InitStrip ==
    /\ NoRun
    /\ call \in [fn : {"strip_saver"}, limit : 0..MaxLimit, trigger : 1..MaxCurrent,
                  i : {1}, polls : {<<>>}, off : {<<>>}, returned : {FALSE}]

\* One iteration of the loop of line 20.
Poll ==
    /\ call.fn = "strip_saver" /\ ~call.returned
    /\ call.i < call.limit
    /\ Len(call.polls) < MaxPolls
    /\ \E r \in Readings :
         call' = [call EXCEPT
                     !.i = CountAfter(call.i, r, call.trigger),
                     !.polls = Append(call.polls, r),
                     !.off = Append(call.off,
                                    TurnsOff(call.i, r, call.trigger, call.limit))]
    /\ UNCHANGED runVars

\* The test of line 20 fails and strip_saver returns.
StripReturn ==
    /\ call.fn = "strip_saver" /\ ~call.returned
    /\ ~(call.i < call.limit)
    /\ call' = [call EXCEPT !.returned = TRUE]
    /\ UNCHANGED runVars

NextStrip == Poll \/ StripReturn

SpecStrip == InitStrip /\ [][NextStrip]_vars

\* A poll that found the ion beam on and the current below the trigger.
Blanked(r, trigger) == r.is_on /\ r.current < trigger

\* The number of consecutive blanked polls that end with poll p.
RECURSIVE ConsecutiveBlanked(_, _, _)
ConsecutiveBlanked(polls, trigger, p) ==
    IF p = 0 \/ ~Blanked(polls[p], trigger) THEN 0
    ELSE 1 + ConsecutiveBlanked(polls, trigger, p - 1)

\* C19: the beams are switched off in the poll that completes count_limit
\* consecutive blanked polls and in no other poll; a poll that finds the beam
\* unblanked or off starts the count again.  Stated for count_limit >= 3,
\* where no poll other than a blanked one switches the beams off.
C19_OffAfterLimitPolls ==
    (call.fn = "strip_saver" /\ call.limit >= 3)
    => \A p \in 1..Len(call.polls) :
          call.off[p] <=> ConsecutiveBlanked(call.polls, call.trigger, p) = call.limit

\* C20: for every count_limit >= 2 the beams are switched off only in an
\* iteration that found the ion beam on and the specimen current below the
\* trigger.
C20_OffOnlyWhenBlanked ==
    (call.fn = "strip_saver" /\ call.limit >= 2)
    => \A p \in 1..Len(call.polls) :
          call.off[p] => Blanked(call.polls[p], call.trigger)

----------------------------------------------------------------------------
(* Claims about the clamps of the projection window (SpecProject) *)

\* C23: for every depth d >= 1 and n >= 1, with ne = min(n, d), the centred
\* window [d//2 - ne//2, d//2 - ne//2 + ne) lies within [0, d], so neither
\* clamp changes it: it is the window used, it contains the middle slice
\* d//2, and a window with n within the depth never starts below 0.
C23_ClampsNeverAct ==
    (call.fn = "project" /\ call.done /\ call.n >= 1)
    => LET d == call.subvolume.shape[1]
           ne == IF call.n < d THEN call.n ELSE d
           lo == (d \div 2) - (ne \div 2)
       IN /\ ~call.raised
          /\ lo >= 0 /\ lo + ne <= d
          /\ call.start_z = lo /\ call.end_z = lo + ne
          /\ call.start_z <= d \div 2 /\ d \div 2 < call.end_z
          /\ ~(call.n <= d /\ (d \div 2) - (call.n \div 2) < 0)

\* C23 witness: a window of 3 slices in a subvolume of depth 4 ends at the
\* far edge without having been moved.
C23_Witness ==
    /\ call.fn = "project" /\ call.done /\ ~call.raised
    /\ call.subvolume.shape[1] = 4 /\ call.n = 3
    /\ call.start_z = 1 /\ call.end_z = 4

----------------------------------------------------------------------------
(* Claims about the names of the output files (Spec) *)

\* The rows of a table name pairwise different files.
DistinctImages(rows) ==
    \A i \in 1..Len(rows) : \A j \in 1..Len(rows) :
        i # j => rows[i].rlnImageName # rows[j].rlnImageName

\* C22: within one run no output file is written twice: distinct rows of the
\* 3D table name distinct subvolume files and distinct rows of the 2D table
\* name distinct projection files, for every tomogram list and every input
\* table.
C22_NoFileWrittenTwice ==
    /\ star3d.written => DistinctImages(star3d.rows)
    /\ star2d.written => DistinctImages(star2d.rows)

----------------------------------------------------------------------------
(* utils/data_utils.py: normalize_data on integer arrays (SpecNormalize) *)

MaxLen == 3        \* arrays of 0..MaxLen samples

\* Integer sample types and sample values of the arrays: the two ends of
\* int8 and values around zero.
NormDtypes == { "int8", "int64" }
NormSamples == { -128, -1, 0, 1, 127 }

\* np.min(data) and np.max(data) of a non-empty array.
data_min(data) == CHOOSE m \in {data[k] : k \in 1..Len(data)} :
                      \A k \in 1..Len(data) : m <= data[k]
data_max(data) == CHOOSE m \in {data[k] : k \in 1..Len(data)} :
                      \A k \in 1..Len(data) : m >= data[k]

\* A difference of two samples in the type of the array: int8 wraps, int64
\* holds every difference of the samples.
Minus(dtype, x, y) ==
    IF dtype = "int8" THEN ((x - y + 128) % 256) - 128 ELSE x - y

\* Line 52: each element is the quotient num / den of two integers of the
\* type of the array, kept as the pair.
Quotients(dtype, data) ==
    [k \in 1..Len(data) |->
        [num |-> Minus(dtype, data[k], data_min(data)),
         den |-> Minus(dtype, data_max(data), data_min(data))]]

\* Line 50: np.zeros_like(data).
zeros_like(data) == [k \in 1..Len(data) |-> [num |-> 0, den |-> 1]]

InitNormalize ==
    /\ NoRun
    /\ call \in [fn : {"normalize_data"}, done : {FALSE}, dtype : NormDtypes,
                  data : SeqsUpTo(NormSamples, MaxLen),
                  raised : {FALSE}, out : {<<>>}]

\* normalize_data, lines 43-52.
ApplyNormalize ==
    /\ call.fn = "normalize_data" /\ ~call.done
    /\ call' = IF Len(call.data) = 0
               THEN [call EXCEPT !.done = TRUE, !.raised = TRUE]
               ELSE IF data_max(call.data) = data_min(call.data)
               THEN [call EXCEPT !.done = TRUE, !.out = zeros_like(call.data)]
               ELSE [call EXCEPT !.done = TRUE,
                                 !.out = Quotients(call.dtype, call.data)]
    /\ UNCHANGED runVars

SpecNormalize == InitNormalize /\ [][ApplyNormalize]_vars

\* Comparisons of quotients num / den, den # 0.
IsZero(q) == q.num = 0
IsOne(q) == q.num = q.den
InUnit(q) == q.num * q.den >= 0 /\ q.num * q.den <= q.den * q.den
Sgn(d) == IF d < 0 THEN -1 ELSE 1
LeqQ(p, q) ==
    p.num * Sgn(p.den) * (q.den * Sgn(q.den)) <= q.num * Sgn(q.den) * (p.den * Sgn(p.den))

\* C21: normalize_data raises on an empty array, returns zeros of the same
\* shape on a constant array, and otherwise returns an array of the same
\* shape with the minimum at 0, the maximum at 1, every element in [0, 1]
\* and the order of the elements preserved.
C21_NormalizedRange ==
    (call.fn = "normalize_data" /\ call.done)
    => LET x == call.data
           y == call.out
           I == 1..Len(x)
       IN IF Len(x) = 0 THEN call.raised
          ELSE /\ ~call.raised /\ Len(y) = Len(x)
               /\ IF \A i \in I : x[i] = x[1]
                  THEN \A i \in I : IsZero(y[i])
                  ELSE /\ \A i \in I :
                            /\ y[i].den # 0 /\ InUnit(y[i])
                            /\ (\A j \in I : x[i] <= x[j]) => IsZero(y[i])
                            /\ (\A j \in I : x[i] >= x[j]) => IsOne(y[i])
                       /\ \A i \in I : \A j \in I :
                            x[i] <= x[j] => LeqQ(y[i], y[j])

----------------------------------------------------------------------------
(* tomo_scripts/filter_mdoc_from_adoc.py: find_remove_skips (SpecSkips) *)

MaxImages == 2     \* .mdoc files of 0..MaxImages images
MaxItems == 2      \* skip ranges of at most MaxItems comma-separated items
MaxFiles == 2      \* runs over 1..MaxFiles tomograms

\* The items of the value of setupset.copyarg.skip: a number a, or a range
\* a-b; numbers run from 0 to one beyond the images.
SkipItems ==
    { [kind |-> "one", a |-> a, b |-> a] : a \in 0..(MaxImages + 1) }
    \cup { r \in [kind : {"range"}, a : 0..(MaxImages + 1), b : 0..(MaxImages + 1)] :
             r.a <= r.b }

\* list(range(skip_first, skip_last + 1)), line 220.
RECURSIVE Range(_, _)
Range(a, b) == IF a > b THEN <<>> ELSE << a >> \o Range(a + 1, b)

\* parse_range, lines 210-231: the items are expanded in order, nothing is
\* sorted and nothing is removed.
RECURSIVE parse_range(_)
parse_range(items) ==
    IF items = <<>> THEN <<>>
    ELSE (IF Head(items).kind = "range"
          THEN Range(Head(items).a, Head(items).b)
          ELSE << Head(items).a >>) \o parse_range(Tail(items))

\* parse_mdoc on a file of n images of different tilt angles under an
\* interpreter that has dict.iteritems: the header at index 0, then the
\* images in the order of their angles, here named 1..n.
mdoc_data_list(n) == Range(0, n)

\* The test of line 131.
SanityFails(skip_list, data) == skip_list[Len(skip_list)] > Len(data)

\* Line 136: the elements whose index is not in the skip list.
new_data_list(data, skip_list) ==
    SelectSeq(data, LAMBDA e : \A k \in 1..Len(skip_list) : skip_list[k] # e)

InitSkips ==
    /\ NoRun
    /\ call \in [fn : {"find_remove_skips"}, interp : {"python2", "python3"},
                  verbosity : 1..2, nfiles : 1..MaxFiles, idx : {0},
                  status : {"loop"}, n : {0}, skip_list : {<<>>},
                  wrote : {FALSE}, new_mdoc : {<<>>}]

\* Lines 114-164 for the file of index call.idx, of n images and with the
\* skip range items.  Under Python 3 parse_mdoc raises AttributeError at
\* line 278 (OrderedDict has no iteritems).
FileStep ==
    /\ call.fn = "find_remove_skips" /\ call.status = "loop"
    /\ call.idx < call.nfiles
    /\ \E n \in 0..MaxImages, items \in SeqsUpTo(SkipItems, MaxItems) :
         LET skip_list == parse_range(items)
             data == mdoc_data_list(n)
             c == [call EXCEPT !.idx = call.idx + 1, !.n = n,
                               !.skip_list = skip_list,
                               !.wrote = FALSE, !.new_mdoc = <<>>]
         IN call' =
              IF Len(skip_list) > 0
              THEN IF call.interp = "python3"
                   THEN [c EXCEPT !.status = "AttributeError"]
                   ELSE IF SanityFails(skip_list, data)
                   THEN [c EXCEPT !.status = "exit"]
                   ELSE [c EXCEPT !.wrote = TRUE,
                                  !.new_mdoc = new_data_list(data, skip_list)]
              ELSE IF call.interp = "python3" /\ call.verbosity >= 2
                   THEN [c EXCEPT !.wrote = TRUE, !.new_mdoc = data,
                                  !.status = "AttributeError"]
                   ELSE [c EXCEPT !.wrote = TRUE, !.new_mdoc = data]
    /\ UNCHANGED runVars

\* The loop of line 112 ends.
SkipsReturn ==
    /\ call.fn = "find_remove_skips" /\ call.status = "loop"
    /\ call.idx >= call.nfiles
    /\ call' = [call EXCEPT !.status = "done"]
    /\ UNCHANGED runVars

NextSkips == FileStep \/ SkipsReturn

SpecSkips == InitSkips /\ [][NextSkips]_vars

\* The images 1..n whose number is not an entry of the skip list.
ImagesKept(n, skip_list) ==
    SelectSeq(Range(1, n), LAMBDA e : \A k \in 1..Len(skip_list) : skip_list[k] # e)
SkipEntries(skip_list) == { skip_list[k] : k \in 1..Len(skip_list) }

\* C24: when the skip list names an image number greater than the number of
\* images of the .mdoc, the sanity check ends the run and no new .mdoc is
\* written for the tomogram; otherwise the new .mdoc holds the header and
\* exactly the images whose number is not in the skip list, and the number
\* of images removed is the number of distinct skip entries.  Stated for
\* skip lists of image numbers >= 1 and an interpreter under which parse_mdoc
\* returns.
C24_SkipsChecked ==
    (/\ call.fn = "find_remove_skips" /\ call.idx > 0
     /\ call.interp = "python2"
     /\ \A s \in SkipEntries(call.skip_list) : s >= 1)
    => IF \E s \in SkipEntries(call.skip_list) : s > call.n
       THEN call.status = "exit" /\ ~call.wrote
       ELSE /\ call.wrote
            /\ call.new_mdoc = << 0 >> \o ImagesKept(call.n, call.skip_list)
            /\ call.n - Len(ImagesKept(call.n, call.skip_list))
                  = Cardinality(SkipEntries(call.skip_list))

====
